---------------------------- MODULE Spec2Model ----------------------------
(***************************************************************************)
(* Admin identity, password reset and subscriber registry of src/main.py.  *)
(*                                                                         *)
(* The document store is two collections, "admin" and "subscribers", each  *)
(* a sequence of documents in insertion order (find_one({}) answers the    *)
(* first document, a document's _id is its position).  Time is counted in  *)
(* whole minutes of UTC.  secrets.token_urlsafe draws are modelled as      *)
(* fresh values 1, 2, ... (no two draws collide).  bcrypt is modelled as   *)
(* a one-way tag around the secret, the salt left out: verify(s, h) holds  *)
(* exactly when h was made from s.                                         *)
(***************************************************************************)
EXTENDS Integers, Sequences, FiniteSets, Bags, TLC

VARIABLES
    admin,          \* db["admin"]: sequence of admin documents
    subscribers,    \* db["subscribers"]: sequence of subscriber documents
    RESET_ADMIN,    \* os.environ RESET_ADMIN == "true"
    ADMIN_CREATED,  \* os.environ ADMIN_CREATED == "true"
    RESET_MODE,     \* os.environ RESET_MODE == "true"
    now,            \* datetime.now(timezone.utc), in minutes
    issued,         \* number of secrets.token_urlsafe draws so far
    sent,           \* the reset links logged so far, in order: raw token and time
    last,           \* the response of the request answered last
    consumed,       \* the raw tokens of the reset_password requests answered
                    \* with success so far: a bag
    inflight        \* the requests being handled: a bag of handler frames

vars == <<admin, subscribers, RESET_ADMIN, ADMIN_CREATED, RESET_MODE, now, issued, sent, last,
          consumed, inflight>>

----------------------------------------------------------------------------
(* Bounds of the model and program constants *)

MaxTokens == 2
MaxInflight == 2
MaxTime == 30
TickMinutes == 15

RESET_TOKEN_TTL_MINUTES == 15

\* Request inputs that pass the handlers' pydantic models (the field constraints
\* of AdminRegisterIn and ResetPasswordIn are checked before a handler runs)
Usernames == {"admin1", "admin2"}
Emails == {"a@x.com", "b@x.com"}
Passwords == {"secret1", "secret2"}
RegisterPasswords == {"secret1"}
FullNames == {"A B"}
Names == {"Alice"}
SubscriberEmails == {"alice@example.com", "bob@example.com"}
Tokens == 1..MaxTokens

\* An absent (or null) field of a document
NoToken == 0
NoHash == <<>>
NoExpiry == -1

----------------------------------------------------------------------------
(* Library primitives *)

\* passlib bcrypt.hash(secret)
BcryptHash(secret) == <<"bcrypt", secret>>

\* passlib bcrypt.verify(secret, hash)
BcryptVerify(secret, hash) == hash = BcryptHash(secret)

\* collection.find_one(filter), given the positions of the documents that match
\* the filter: the position of the first match, 0 for None
FindOne(matches) ==
    IF matches = {} THEN 0 ELSE CHOOSE i \in matches : \A j \in matches : i <= j

\* collection.count_documents({})
CountDocuments(coll) == Len(coll)

\* An HTTP response: the handler that answered, the status code, the detail or
\* message, and the token a login returns (NoToken elsewhere)
Response(op, status, detail) ==
    [op |-> op, status |-> status, detail |-> detail, token |-> NoToken]

----------------------------------------------------------------------------
(* Admin one-time registration and login *)

\* schemas.Admin(...).model_dump() as built by admin_register
AdminDoc(full_name, username, email, password_hash) ==
    [full_name |-> full_name, username |-> username, email |-> email,
     password_hash |-> password_hash, is_active |-> TRUE,
     current_token |-> NoToken, reset_token_hash |-> NoHash,
     reset_token_expires |-> NoExpiry]

\* Mutant of AdminExists: the RESET_ADMIN override is not consulted
AdminExists_NoOverride == CountDocuments(admin) > 0 \/ ADMIN_CREATED

\* _admin_exists()
AdminExists ==
    IF RESET_ADMIN
    THEN FALSE
    ELSE CountDocuments(admin) > 0 \/ ADMIN_CREATED

\* Mutant of UsernameOrEmailInUse: the filter looks at the username alone
UsernameOrEmailInUse_UsernameOnly(username, email) ==
    FindOne({i \in 1..Len(admin) : admin[i].username = username}) # 0

\* The $or filter of admin_register's uniqueness check
UsernameOrEmailInUse(username, email) ==
    FindOne({i \in 1..Len(admin) :
                admin[i].username = username \/ admin[i].email = email}) # 0

\* POST /admin/register
AdminRegister(full_name, username, email, password) ==
    IF AdminExists
    THEN /\ last' = Response("admin_register", 403, "Admin already created")
         /\ UNCHANGED <<admin, subscribers, RESET_ADMIN, ADMIN_CREATED, RESET_MODE, now, issued, sent, inflight, consumed>>
    ELSE IF UsernameOrEmailInUse(username, email)
    THEN /\ last' = Response("admin_register", 400, "Username or email already in use")
         /\ UNCHANGED <<admin, subscribers, RESET_ADMIN, ADMIN_CREATED, RESET_MODE, now, issued, sent, inflight, consumed>>
    ELSE /\ admin' = Append(admin, AdminDoc(full_name, username, email, BcryptHash(password)))
         /\ ADMIN_CREATED' = TRUE
         /\ last' = Response("admin_register", 200, "Admin created. Please log in.")
         /\ UNCHANGED <<subscribers, RESET_ADMIN, RESET_MODE, now, issued, sent, inflight, consumed>>

\* Mutant of AdminLogin: a session token already stored is kept, the new token
\* is returned but not stored
AdminLogin_KeepsFirst(username, password) ==
    LET a == FindOne({i \in 1..Len(admin) : admin[i].username = username})
    IN  IF a = 0
        THEN /\ last' = Response("admin_login", 401, "Invalid credentials")
             /\ UNCHANGED <<admin, subscribers, RESET_ADMIN, ADMIN_CREATED, RESET_MODE, now, issued, sent, inflight, consumed>>
        ELSE IF ~BcryptVerify(password, admin[a].password_hash)
        THEN /\ last' = Response("admin_login", 401, "Invalid credentials")
             /\ UNCHANGED <<admin, subscribers, RESET_ADMIN, ADMIN_CREATED, RESET_MODE, now, issued, sent, inflight, consumed>>
        ELSE /\ issued < MaxTokens
             /\ issued' = issued + 1
             /\ admin' = IF admin[a].current_token = NoToken
                         THEN [admin EXCEPT ![a].current_token = issued']
                         ELSE admin
             /\ last' = [Response("admin_login", 200, "") EXCEPT !.token = issued']
             /\ UNCHANGED <<subscribers, RESET_ADMIN, ADMIN_CREATED, RESET_MODE, now, sent, inflight, consumed>>

\* Mutant of AdminLogin: an unknown username is answered 404
AdminLogin_UnknownUser404(username, password) ==
    LET a == FindOne({i \in 1..Len(admin) : admin[i].username = username})
    IN  IF a = 0
        THEN /\ last' = Response("admin_login", 404, "No such user")
             /\ UNCHANGED <<admin, subscribers, RESET_ADMIN, ADMIN_CREATED, RESET_MODE, now, issued, sent, inflight, consumed>>
        ELSE IF ~BcryptVerify(password, admin[a].password_hash)
        THEN /\ last' = Response("admin_login", 401, "Invalid credentials")
             /\ UNCHANGED <<admin, subscribers, RESET_ADMIN, ADMIN_CREATED, RESET_MODE, now, issued, sent, inflight, consumed>>
        ELSE /\ issued < MaxTokens
             /\ issued' = issued + 1
             /\ admin' = [admin EXCEPT ![a].current_token = issued']
             /\ last' = [Response("admin_login", 200, "") EXCEPT !.token = issued']
             /\ UNCHANGED <<subscribers, RESET_ADMIN, ADMIN_CREATED, RESET_MODE, now, sent, inflight, consumed>>

\* POST /auth/login
AdminLogin(username, password) ==
    LET a == FindOne({i \in 1..Len(admin) : admin[i].username = username})
    IN  IF a = 0
        THEN /\ last' = Response("admin_login", 401, "Invalid credentials")
             /\ UNCHANGED <<admin, subscribers, RESET_ADMIN, ADMIN_CREATED, RESET_MODE, now, issued, sent, inflight, consumed>>
        ELSE IF ~BcryptVerify(password, admin[a].password_hash)
        THEN /\ last' = Response("admin_login", 401, "Invalid credentials")
             /\ UNCHANGED <<admin, subscribers, RESET_ADMIN, ADMIN_CREATED, RESET_MODE, now, issued, sent, inflight, consumed>>
        ELSE /\ issued < MaxTokens
             /\ issued' = issued + 1
             /\ admin' = [admin EXCEPT ![a].current_token = issued']
             /\ last' = [Response("admin_login", 200, "") EXCEPT !.token = issued']
             /\ UNCHANGED <<subscribers, RESET_ADMIN, ADMIN_CREATED, RESET_MODE, now, sent, inflight, consumed>>

----------------------------------------------------------------------------
(* Password reset flow for the single admin *)

\* _get_single_admin(): db["admin"].find_one({})
GetSingleAdmin == FindOne(1..Len(admin))

\* Mutant of ExpiresAt: the expiry is the issue time, no TTL added
ExpiresAt_NoTtl(t) == t

\* datetime.now(timezone.utc) + timedelta(minutes=RESET_TOKEN_TTL_MINUTES)
ExpiresAt(t) == t + RESET_TOKEN_TTL_MINUTES

\* Mutant of IsExpired: a reset counts as expired at the minute of its expiry
IsExpired_AtExpiry(expires) == now >= expires

\* datetime.now(timezone.utc) > expires.replace(tzinfo=timezone.utc): the store
\* keeps the expiry as a UTC instant, so the comparison is between instants
IsExpired(expires) == now > expires

\* The test "not token_hash or not expires" of verify_reset_token and reset_password
NoResetPending(doc) ==
    doc.reset_token_hash = NoHash \/ doc.reset_token_expires = NoExpiry

\* Mutant of ForgotPassword: a reset that is already pending is not overwritten
ForgotPassword_KeepsPending(email) ==
    LET a == GetSingleAdmin
    IN  IF a = 0 \/ (a # 0 /\ admin[a].email # email)
        THEN /\ last' = Response("forgot_password", 404, "No account found with this email.")
             /\ UNCHANGED <<admin, subscribers, RESET_ADMIN, ADMIN_CREATED, RESET_MODE, now, issued, sent, inflight, consumed>>
        ELSE /\ issued < MaxTokens
             /\ issued' = issued + 1
             /\ admin' = IF NoResetPending(admin[a])
                         THEN [admin EXCEPT ![a].reset_token_hash = BcryptHash(issued'),
                                            ![a].reset_token_expires = ExpiresAt(now)]
                         ELSE admin
             /\ sent' = Append(sent, [token |-> issued', at |-> now])
             /\ last' = Response("forgot_password", 200,
                                 "If the email exists, a reset link has been sent.")
             /\ UNCHANGED <<subscribers, RESET_ADMIN, ADMIN_CREATED, RESET_MODE, now, inflight, consumed>>

\* POST /auth/forgot-password
ForgotPassword(email) ==
    LET a == GetSingleAdmin
    IN  IF a = 0 \/ (a # 0 /\ admin[a].email # email)
        THEN /\ last' = Response("forgot_password", 404, "No account found with this email.")
             /\ UNCHANGED <<admin, subscribers, RESET_ADMIN, ADMIN_CREATED, RESET_MODE, now, issued, sent, inflight, consumed>>
        ELSE /\ issued < MaxTokens
             /\ issued' = issued + 1
             /\ admin' = [admin EXCEPT ![a].reset_token_hash = BcryptHash(issued'),
                                       ![a].reset_token_expires = ExpiresAt(now)]
             /\ sent' = Append(sent, [token |-> issued', at |-> now])
             /\ last' = Response("forgot_password", 200,
                                 "If the email exists, a reset link has been sent.")
             /\ UNCHANGED <<subscribers, RESET_ADMIN, ADMIN_CREATED, RESET_MODE, now, inflight, consumed>>

\* The body of verify_reset_token: the ResetVerifyOut it answers in the current state
ResetVerifyOut(token) ==
    LET a == GetSingleAdmin
    IN  IF a = 0
        THEN [valid |-> FALSE, message |-> "No admin account exists"]
        ELSE IF NoResetPending(admin[a])
        THEN [valid |-> FALSE, message |-> "Invalid or expired token"]
        ELSE IF IsExpired(admin[a].reset_token_expires)
        THEN [valid |-> FALSE, message |-> "Token expired"]
        ELSE IF ~BcryptVerify(token, admin[a].reset_token_hash)
        THEN [valid |-> FALSE, message |-> "Invalid token"]
        ELSE [valid |-> TRUE, message |-> ""]

\* Mutant of VerifyResetToken: an expired pending reset is cleaned up by the
\* verify call, as reset_password does
VerifyResetToken_Cleans(token) ==
    /\ last' = Response("verify_reset_token", 200,
                        IF ResetVerifyOut(token).valid THEN "valid"
                        ELSE ResetVerifyOut(token).message)
    /\ admin' = IF ResetVerifyOut(token).message = "Token expired"
                THEN [admin EXCEPT ![GetSingleAdmin].reset_token_hash = NoHash,
                                   ![GetSingleAdmin].reset_token_expires = NoExpiry]
                ELSE admin
    /\ UNCHANGED <<subscribers, RESET_ADMIN, ADMIN_CREATED, RESET_MODE, now, issued, sent, inflight, consumed>>

\* GET /auth/reset/verify
VerifyResetToken(token) ==
    /\ last' = Response("verify_reset_token", 200,
                        IF ResetVerifyOut(token).valid THEN "valid"
                        ELSE ResetVerifyOut(token).message)
    /\ UNCHANGED <<admin, subscribers, RESET_ADMIN, ADMIN_CREATED, RESET_MODE, now, issued, sent, inflight, consumed>>

\* Mutant of WithNewPassword: the reset fields and the session are cleared but
\* password_hash is left as it was
WithNewPassword_KeepsPassword(doc, new_password) ==
    [doc EXCEPT !.reset_token_hash = NoHash,
                !.reset_token_expires = NoExpiry,
                !.current_token = NoToken]

\* Mutant of WithNewPassword: current_token is left in place
WithNewPassword_KeepsSession(doc, new_password) ==
    [doc EXCEPT !.password_hash = BcryptHash(new_password),
                !.reset_token_hash = NoHash,
                !.reset_token_expires = NoExpiry]

\* The $set/$unset update of a completed reset, shared by reset_password and
\* reset_password_apply
WithNewPassword(doc, new_password) ==
    [doc EXCEPT !.password_hash = BcryptHash(new_password),
                !.reset_token_hash = NoHash,
                !.reset_token_expires = NoExpiry,
                !.current_token = NoToken]

\* Mutant of WithoutReset: the cleanup of an expired reset unsets the hash alone
WithoutReset_HashOnly(doc) == [doc EXCEPT !.reset_token_hash = NoHash]

\* Mutant of WithoutReset: the cleanup of an expired reset also ends the session
WithoutReset_ClearsSession(doc) ==
    [doc EXCEPT !.reset_token_hash = NoHash, !.reset_token_expires = NoExpiry,
                !.current_token = NoToken]

\* The $unset cleanup of an expired reset in reset_password
WithoutReset(doc) ==
    [doc EXCEPT !.reset_token_hash = NoHash, !.reset_token_expires = NoExpiry]

\* POST /auth/reset
ResetPassword(token, new_password) ==
    LET a == GetSingleAdmin
    IN  IF a = 0
        THEN /\ last' = Response("reset_password", 404, "No admin account exists")
             /\ UNCHANGED <<admin, subscribers, RESET_ADMIN, ADMIN_CREATED, RESET_MODE, now, issued, sent, inflight, consumed>>
        ELSE IF NoResetPending(admin[a])
        THEN /\ last' = Response("reset_password", 400, "Invalid or expired token")
             /\ UNCHANGED <<admin, subscribers, RESET_ADMIN, ADMIN_CREATED, RESET_MODE, now, issued, sent, inflight, consumed>>
        ELSE IF IsExpired(admin[a].reset_token_expires)
        THEN /\ admin' = [admin EXCEPT ![a] = WithoutReset(@)]
             /\ last' = Response("reset_password", 400, "Token expired")
             /\ UNCHANGED <<subscribers, RESET_ADMIN, ADMIN_CREATED, RESET_MODE, now, issued, sent, inflight, consumed>>
        ELSE IF ~BcryptVerify(token, admin[a].reset_token_hash)
        THEN /\ last' = Response("reset_password", 400, "Invalid token")
             /\ UNCHANGED <<admin, subscribers, RESET_ADMIN, ADMIN_CREATED, RESET_MODE, now, issued, sent, inflight, consumed>>
        ELSE /\ admin' = [admin EXCEPT ![a] = WithNewPassword(@, new_password)]
             /\ consumed' = consumed (+) SetToBag({token})
             /\ last' = Response("reset_password", 200,
                                 "Password reset successful. Please log in.")
             /\ UNCHANGED <<subscribers, RESET_ADMIN, ADMIN_CREATED, RESET_MODE, now, issued, sent, inflight>>

\* Mutant of ResetPasswordApply: the RESET_MODE flag is not tested
ResetPasswordApply_NoFlag(new_password) ==
    LET a == GetSingleAdmin
    IN  IF a = 0
        THEN /\ last' = Response("reset_password_apply", 404, "No admin account exists")
             /\ UNCHANGED <<admin, subscribers, RESET_ADMIN, ADMIN_CREATED, RESET_MODE, now, issued, sent, inflight, consumed>>
        ELSE /\ admin' = [admin EXCEPT ![a] = WithNewPassword(@, new_password)]
             /\ last' = Response("reset_password_apply", 200, "Password updated.")
             /\ UNCHANGED <<subscribers, RESET_ADMIN, ADMIN_CREATED, RESET_MODE, now, issued, sent, inflight, consumed>>

\* POST /reset-password
ResetPasswordApply(new_password) ==
    LET a == GetSingleAdmin
    IN  IF ~RESET_MODE
        THEN /\ last' = Response("reset_password_apply", 404, "Not found")
             /\ UNCHANGED <<admin, subscribers, RESET_ADMIN, ADMIN_CREATED, RESET_MODE, now, issued, sent, inflight, consumed>>
        ELSE IF a = 0
        THEN /\ last' = Response("reset_password_apply", 404, "No admin account exists")
             /\ UNCHANGED <<admin, subscribers, RESET_ADMIN, ADMIN_CREATED, RESET_MODE, now, issued, sent, inflight, consumed>>
        ELSE /\ admin' = [admin EXCEPT ![a] = WithNewPassword(@, new_password)]
             /\ last' = Response("reset_password_apply", 200, "Password updated.")
             /\ UNCHANGED <<subscribers, RESET_ADMIN, ADMIN_CREATED, RESET_MODE, now, issued, sent, inflight, consumed>>

----------------------------------------------------------------------------
(* Token protection and subscribers *)

\* The Authorization headers a client may present: none, or a scheme and a token
NoHeader == [scheme |-> "", token |-> NoToken]
Schemes == {"Bearer", "Basic"}
Headers == {NoHeader} \cup [scheme : Schemes, token : Tokens]

\* authorization.lower().startswith("bearer ")
IsBearer(authorization) == authorization.scheme = "Bearer"

\* Mutant of GetCurrentAdmin: the scheme of the header is not tested
GetCurrentAdmin_AnyScheme(authorization) ==
    IF authorization = NoHeader
    THEN [status |-> 401, detail |-> "Not authenticated", admin |-> 0]
    ELSE LET a == FindOne({i \in 1..Len(admin) :
                                admin[i].current_token = authorization.token})
         IN  IF a = 0
             THEN [status |-> 401, detail |-> "Invalid token", admin |-> 0]
             ELSE [status |-> 200, detail |-> "", admin |-> a]

\* get_current_admin: the status, the detail and the admin found (0 for none)
GetCurrentAdmin(authorization) ==
    IF authorization = NoHeader \/ ~IsBearer(authorization)
    THEN [status |-> 401, detail |-> "Not authenticated", admin |-> 0]
    ELSE LET a == FindOne({i \in 1..Len(admin) :
                                admin[i].current_token = authorization.token})
         IN  IF a = 0
             THEN [status |-> 401, detail |-> "Invalid token", admin |-> 0]
             ELSE [status |-> 200, detail |-> "", admin |-> a]

\* database.create_document(collection, data): inserts one document
CreateDocument(coll, doc) == Append(coll, doc)

\* Mutant of AddSubscriber: the lookup by email is skipped
AddSubscriber_NoLookup(name, email) ==
    /\ Len(subscribers) < Cardinality(SubscriberEmails) + 1
    /\ subscribers' = CreateDocument(subscribers, [name |-> name, email |-> email])
    /\ last' = Response("add_subscriber", 200, "success")
    /\ UNCHANGED <<admin, RESET_ADMIN, ADMIN_CREATED, RESET_MODE, now, issued, sent, inflight, consumed>>

\* POST /subscribers
AddSubscriber(name, email) ==
    LET existing == FindOne({i \in 1..Len(subscribers) : subscribers[i].email = email})
    IN  /\ subscribers' = IF existing # 0
                          THEN subscribers
                          ELSE CreateDocument(subscribers, [name |-> name, email |-> email])
        /\ last' = Response("add_subscriber", 200, "success")
        /\ UNCHANGED <<admin, RESET_ADMIN, ADMIN_CREATED, RESET_MODE, now, issued, sent, inflight, consumed>>

\* database.get_documents(collection): the documents of the collection
GetDocuments(coll) == coll

\* The items list_subscribers builds from database.get_documents("subscribers")
SubscriberItems ==
    LET docs == GetDocuments(subscribers)
    IN  [i \in 1..Len(docs) |->
            [id |-> i, name |-> docs[i].name, email |-> docs[i].email]]

\* GET /subscribers
ListSubscribers(authorization) ==
    LET auth == GetCurrentAdmin(authorization)
    IN  /\ last' = IF auth.status # 200
                   THEN Response("list_subscribers", auth.status, auth.detail)
                   ELSE [op |-> "list_subscribers", status |-> 200, detail |-> "",
                         token |-> NoToken, items |-> SubscriberItems]
        /\ UNCHANGED <<admin, subscribers, RESET_ADMIN, ADMIN_CREATED, RESET_MODE, now, issued, sent, inflight, consumed>>

----------------------------------------------------------------------------
(* The clock and the system *)

\* Time passes between requests
Tick ==
    /\ now + TickMinutes <= MaxTime
    /\ now' = now + TickMinutes
    /\ UNCHANGED <<admin, subscribers, RESET_ADMIN, ADMIN_CREATED, RESET_MODE, issued, sent, last, inflight, consumed>>

\* A fresh deployment: empty collections, the operator's environment flags
Init ==
    /\ admin = <<>>
    /\ subscribers = <<>>
    /\ RESET_ADMIN \in BOOLEAN
    /\ ADMIN_CREATED \in BOOLEAN
    /\ RESET_MODE \in BOOLEAN
    /\ now = 0
    /\ issued = 0
    /\ sent = <<>>
    /\ last = Response("", 0, "")
    /\ consumed = EmptyBag
    /\ inflight = EmptyBag

Next ==
    \/ \E f \in FullNames, u \in Usernames, e \in Emails, p \in RegisterPasswords :
          AdminRegister(f, u, e, p)
    \/ \E u \in Usernames, p \in Passwords : AdminLogin(u, p)
    \/ \E e \in Emails : ForgotPassword(e)
    \/ \E t \in Tokens : VerifyResetToken(t)
    \/ \E t \in Tokens, p \in Passwords : ResetPassword(t, p)
    \/ \E p \in Passwords : ResetPasswordApply(p)
    \/ Tick

Spec == Init /\ [][Next]_vars

\* The subscriber registry, with the handlers that give and take away the
\* session token its listing is guarded by.  The registry touches nothing of
\* the admin document and reads only current_token, so it is explored apart
\* from the password-reset token lifecycle.
NextS ==
    \/ \E f \in FullNames, u \in Usernames, e \in Emails, p \in RegisterPasswords :
          AdminRegister(f, u, e, p)
    \/ \E u \in Usernames, p \in Passwords : AdminLogin(u, p)
    \/ \E p \in Passwords : ResetPasswordApply(p)
    \/ \E n \in Names, e \in SubscriberEmails : AddSubscriber(n, e)
    \/ \E h \in Headers : ListSubscribers(h)

SpecS == Init /\ [][NextS]_vars

----------------------------------------------------------------------------
(* Requests handled concurrently.

   FastAPI runs the handlers on a thread pool, so requests overlap.  Every
   call on the store (count_documents, find_one, insert_one, update_one) is
   atomic and a handler's calls are separate steps; what a handler computes
   between two calls depends only on its own frame, so it is folded into the
   call before it.  A frame holds the handler's local variables: the _id of
   the admin it found (a), its payload, and what it is about to write. *)

Frame(op, pc, a, username, email, password, raw, at, exp) ==
    [op |-> op, pc |-> pc, a |-> a, full_name |-> "", username |-> username,
     email |-> email, password |-> password, raw |-> raw, at |-> at, exp |-> exp]

Frames == BagToSet(inflight)
CanBegin == BagCardinality(inflight) < MaxInflight
Enter(f) == inflight' = inflight (+) SetToBag({f})
Leave(f) == inflight' = inflight (-) SetToBag({f})
Move(f, g) == inflight' = (inflight (-) SetToBag({f})) (+) SetToBag({g})

\* admin_register: _admin_exists()
RegisterBegin(full_name, username, email, password) ==
    /\ CanBegin
    /\ IF AdminExists
       THEN /\ last' = Response("admin_register", 403, "Admin already created")
            /\ UNCHANGED inflight
       ELSE /\ Enter([Frame("admin_register", "find_one", 0, username, email, password,
                            NoToken, 0, NoExpiry) EXCEPT !.full_name = full_name])
            /\ UNCHANGED last
    /\ UNCHANGED <<admin, subscribers, RESET_ADMIN, ADMIN_CREATED, RESET_MODE, now, issued, sent, consumed>>

\* admin_register: the find_one of the uniqueness check
RegisterFindOne(f) ==
    /\ f.op = "admin_register" /\ f.pc = "find_one"
    /\ IF UsernameOrEmailInUse(f.username, f.email)
       THEN /\ last' = Response("admin_register", 400, "Username or email already in use")
            /\ Leave(f)
       ELSE /\ Move(f, [f EXCEPT !.pc = "insert_one"])
            /\ UNCHANGED last
    /\ UNCHANGED <<admin, subscribers, RESET_ADMIN, ADMIN_CREATED, RESET_MODE, now, issued, sent, consumed>>

\* admin_register: insert_one(admin_doc)
RegisterInsertOne(f) ==
    /\ f.op = "admin_register" /\ f.pc = "insert_one"
    /\ admin' = Append(admin, AdminDoc(f.full_name, f.username, f.email, BcryptHash(f.password)))
    /\ Move(f, [f EXCEPT !.pc = "environ"])
    /\ UNCHANGED <<subscribers, RESET_ADMIN, ADMIN_CREATED, RESET_MODE, now, issued, sent, last, consumed>>

\* admin_register: os.environ["ADMIN_CREATED"] = "true" and the answer
RegisterEnviron(f) ==
    /\ f.op = "admin_register" /\ f.pc = "environ"
    /\ ADMIN_CREATED' = TRUE
    /\ last' = Response("admin_register", 200, "Admin created. Please log in.")
    /\ Leave(f)
    /\ UNCHANGED <<admin, subscribers, RESET_ADMIN, RESET_MODE, now, issued, sent, consumed>>

\* admin_login: find_one by username and bcrypt.verify on the document found
LoginBegin(username, password) ==
    LET a == FindOne({i \in 1..Len(admin) : admin[i].username = username})
    IN  /\ CanBegin
        /\ IF a = 0 \/ (a # 0 /\ ~BcryptVerify(password, admin[a].password_hash))
           THEN /\ last' = Response("admin_login", 401, "Invalid credentials")
                /\ UNCHANGED inflight
           ELSE /\ Enter(Frame("admin_login", "update_one", a, username, "", password,
                               NoToken, 0, NoExpiry))
                /\ UNCHANGED last
        /\ UNCHANGED <<admin, subscribers, RESET_ADMIN, ADMIN_CREATED, RESET_MODE, now, issued, sent, consumed>>

\* admin_login: the token draw and update_one({"_id": ...}, $set current_token)
LoginUpdateOne(f) ==
    /\ f.op = "admin_login" /\ f.pc = "update_one"
    /\ issued < MaxTokens
    /\ issued' = issued + 1
    /\ admin' = [admin EXCEPT ![f.a].current_token = issued']
    /\ last' = [Response("admin_login", 200, "") EXCEPT !.token = issued']
    /\ Leave(f)
    /\ UNCHANGED <<subscribers, RESET_ADMIN, ADMIN_CREATED, RESET_MODE, now, sent, consumed>>

\* forgot_password: _get_single_admin(), the token draw and expires_at
ForgotBegin(email) ==
    LET a == GetSingleAdmin
    IN  /\ CanBegin
        /\ IF a = 0 \/ (a # 0 /\ admin[a].email # email)
           THEN /\ last' = Response("forgot_password", 404, "No account found with this email.")
                /\ UNCHANGED <<inflight, issued>>
           ELSE /\ issued < MaxTokens
                /\ issued' = issued + 1
                /\ Enter(Frame("forgot_password", "update_one", a, "", email, "",
                               issued', now, ExpiresAt(now)))
                /\ UNCHANGED last
        /\ UNCHANGED <<admin, subscribers, RESET_ADMIN, ADMIN_CREATED, RESET_MODE, now, sent, consumed>>

\* forgot_password: update_one($set reset_token_hash, reset_token_expires), the
\* logged link and the answer
ForgotUpdateOne(f) ==
    /\ f.op = "forgot_password" /\ f.pc = "update_one"
    /\ admin' = [admin EXCEPT ![f.a].reset_token_hash = BcryptHash(f.raw),
                              ![f.a].reset_token_expires = f.exp]
    /\ sent' = Append(sent, [token |-> f.raw, at |-> f.at])
    /\ last' = Response("forgot_password", 200,
                        "If the email exists, a reset link has been sent.")
    /\ Leave(f)
    /\ UNCHANGED <<subscribers, RESET_ADMIN, ADMIN_CREATED, RESET_MODE, now, issued, consumed>>

\* reset_password: _get_single_admin() and the checks on the document found
ResetBegin(token, new_password) ==
    LET a == GetSingleAdmin
    IN  /\ CanBegin
        /\ IF a = 0
           THEN /\ last' = Response("reset_password", 404, "No admin account exists")
                /\ UNCHANGED inflight
           ELSE IF NoResetPending(admin[a])
           THEN /\ last' = Response("reset_password", 400, "Invalid or expired token")
                /\ UNCHANGED inflight
           ELSE IF IsExpired(admin[a].reset_token_expires)
           THEN /\ Enter(Frame("reset_password", "unset", a, "", "", new_password,
                               token, 0, NoExpiry))
                /\ UNCHANGED last
           ELSE IF ~BcryptVerify(token, admin[a].reset_token_hash)
           THEN /\ last' = Response("reset_password", 400, "Invalid token")
                /\ UNCHANGED inflight
           ELSE /\ Enter(Frame("reset_password", "set", a, "", "", new_password,
                               token, 0, NoExpiry))
                /\ UNCHANGED last
        /\ UNCHANGED <<admin, subscribers, RESET_ADMIN, ADMIN_CREATED, RESET_MODE, now, issued, sent, consumed>>

\* reset_password: the cleanup update_one($unset reset fields) and the answer
ResetUnset(f) ==
    /\ f.op = "reset_password" /\ f.pc = "unset"
    /\ admin' = [admin EXCEPT ![f.a] = WithoutReset(@)]
    /\ last' = Response("reset_password", 400, "Token expired")
    /\ Leave(f)
    /\ UNCHANGED <<subscribers, RESET_ADMIN, ADMIN_CREATED, RESET_MODE, now, issued, sent, consumed>>

\* reset_password: update_one($set password_hash, $unset ...) and the answer
ResetSet(f) ==
    /\ f.op = "reset_password" /\ f.pc = "set"
    /\ admin' = [admin EXCEPT ![f.a] = WithNewPassword(@, f.password)]
    /\ consumed' = consumed (+) SetToBag({f.raw})
    /\ last' = Response("reset_password", 200, "Password reset successful. Please log in.")
    /\ Leave(f)
    /\ UNCHANGED <<subscribers, RESET_ADMIN, ADMIN_CREATED, RESET_MODE, now, issued, sent>>

\* reset_password_apply: the RESET_MODE test and _get_single_admin()
ApplyBegin(new_password) ==
    LET a == GetSingleAdmin
    IN  /\ CanBegin
        /\ IF ~RESET_MODE
           THEN /\ last' = Response("reset_password_apply", 404, "Not found")
                /\ UNCHANGED inflight
           ELSE IF a = 0
           THEN /\ last' = Response("reset_password_apply", 404, "No admin account exists")
                /\ UNCHANGED inflight
           ELSE /\ Enter(Frame("reset_password_apply", "update_one", a, "", "", new_password,
                               NoToken, 0, NoExpiry))
                /\ UNCHANGED last
        /\ UNCHANGED <<admin, subscribers, RESET_ADMIN, ADMIN_CREATED, RESET_MODE, now, issued, sent, consumed>>

\* reset_password_apply: update_one($set password_hash, $unset ...) and the answer
ApplyUpdateOne(f) ==
    /\ f.op = "reset_password_apply" /\ f.pc = "update_one"
    /\ admin' = [admin EXCEPT ![f.a] = WithNewPassword(@, f.password)]
    /\ last' = Response("reset_password_apply", 200, "Password updated.")
    /\ Leave(f)
    /\ UNCHANGED <<subscribers, RESET_ADMIN, ADMIN_CREATED, RESET_MODE, now, issued, sent, consumed>>

\* The concurrent requests all name one account.  A login or forgot-password
\* request for another username or email is answered from its single read of
\* the store and is explored in Spec.
RegisterPayloads == {<<"A B", "admin1", "a@x.com", "secret1">>}
NewPasswords == {"secret2"}

\* A fresh deployment with neither registration flag set and the developer
\* fallback enabled
InitC ==
    /\ Init
    /\ ~RESET_ADMIN
    /\ ~ADMIN_CREATED
    /\ RESET_MODE

NextC ==
    \/ \E r \in RegisterPayloads : RegisterBegin(r[1], r[2], r[3], r[4])
    \/ \E f \in Frames : RegisterFindOne(f)
    \/ \E f \in Frames : RegisterInsertOne(f)
    \/ \E f \in Frames : RegisterEnviron(f)
    \/ \E r \in RegisterPayloads, p \in Passwords : LoginBegin(r[2], p)
    \/ \E f \in Frames : LoginUpdateOne(f)
    \/ \E r \in RegisterPayloads : ForgotBegin(r[3])
    \/ \E f \in Frames : ForgotUpdateOne(f)
    \/ \E t \in Tokens : VerifyResetToken(t)
    \/ \E t \in Tokens, p \in NewPasswords : ResetBegin(t, p)
    \/ \E f \in Frames : ResetUnset(f)
    \/ \E f \in Frames : ResetSet(f)
    \/ \E p \in NewPasswords : ApplyBegin(p)
    \/ \E f \in Frames : ApplyUpdateOne(f)
    \/ Tick

SpecC == InitC /\ [][NextC]_vars

\* Registrations racing with one another and with logins: two payloads that
\* share neither username nor email
RacingPayloads ==
    {<<"A B", "admin1", "a@x.com", "secret1">>, <<"A B", "admin2", "b@x.com", "secret1">>}

NextR ==
    \/ \E r \in RacingPayloads : RegisterBegin(r[1], r[2], r[3], r[4])
    \/ \E f \in Frames : RegisterFindOne(f)
    \/ \E f \in Frames : RegisterInsertOne(f)
    \/ \E f \in Frames : RegisterEnviron(f)
    \/ \E u \in Usernames, p \in RegisterPasswords : LoginBegin(u, p)
    \/ \E f \in Frames : LoginUpdateOne(f)

SpecR == InitC /\ [][NextR]_vars

----------------------------------------------------------------------------
(* Properties *)

RegisterInputs == FullNames \X Usernames \X Emails \X RegisterPasswords

\* C1 (as amended): a Register call is rejected with 403 "Admin already
\* created" exactly when the RESET_ADMIN override is off and either an admin
\* record is stored or the ADMIN_CREATED marker is set; a rejected call inserts
\* nothing; from an empty store with neither override nor marker the first
\* call succeeds, and without the override the store never holds a second admin.
C1_RegisterForbidden ==
    [][\A r \in RegisterInputs :
          AdminRegister(r[1], r[2], r[3], r[4]) =>
             /\ (last'.status = 403) <=>
                    (~RESET_ADMIN /\ (Len(admin) > 0 \/ ADMIN_CREATED))
             /\ last'.status = 403 =>
                    (admin' = admin /\ last'.detail = "Admin already created")
             /\ (~RESET_ADMIN /\ admin = <<>> /\ ~ADMIN_CREATED) =>
                    (last'.status = 200 /\ Len(admin') = 1)
             /\ ~RESET_ADMIN => Len(admin') <= 1]_vars

\* C1 witness: without the override, a Register call was rejected after an
\* earlier one had created the admin
C1_Witness ==
    /\ ~RESET_ADMIN
    /\ Len(admin) = 1
    /\ last.op = "admin_register"
    /\ last.status = 403

\* C1 as stated: Register is rejected with 403 exactly when an admin record is
\* stored and the override is off
C1_Original ==
    [][\A r \in RegisterInputs :
          AdminRegister(r[1], r[2], r[3], r[4]) =>
             ((last'.status = 403) <=> (Len(admin) > 0 /\ ~RESET_ADMIN))]_vars

\* The bearer credential of a token, and what get_current_admin answers for it
Bearer(t) == [scheme |-> "Bearer", token |-> t]
Authenticates(t) == GetCurrentAdmin(Bearer(t)).status = 200
AuthenticatedAdmin(t) == GetCurrentAdmin(Bearer(t)).admin

\* C2: a successful Login's token authenticates from then on; a token stops
\* authenticating only in a step that is a successful Login with its admin's
\* username, or a successful ResetPassword or developer-fallback reset of its
\* admin. No other step (Register, failed Login, ForgotPassword,
\* VerifyResetToken, failed or expired ResetPassword, Subscribe, ListSubscribers,
\* the passing of time) invalidates it.
C2_TokenValidUntilLoginOrReset ==
    [][/\ \A u \in Usernames, p \in Passwords :
             (AdminLogin(u, p) /\ last'.status = 200) =>
                 \E t \in Tokens : t = last'.token /\ (Authenticates(t))'
       /\ \A t \in Tokens :
             (Authenticates(t) /\ ~(Authenticates(t))') =>
                 \/ \E p \in Passwords :
                       /\ AdminLogin(admin[AuthenticatedAdmin(t)].username, p)
                       /\ last'.status = 200
                 \/ \E k \in Tokens, p \in Passwords :
                       /\ ResetPassword(k, p)
                       /\ last'.status = 200
                       /\ AuthenticatedAdmin(t) = GetSingleAdmin
                 \/ \E p \in Passwords :
                       /\ ResetPasswordApply(p)
                       /\ last'.status = 200
                       /\ AuthenticatedAdmin(t) = GetSingleAdmin]_vars

\* C2 witness: a login token still authenticates right after a ResetPassword
\* call that failed on expiry and cleaned the reset fields up
C2_Witness ==
    /\ last.op = "reset_password"
    /\ last.detail = "Token expired"
    /\ \E t \in Tokens : Authenticates(t)

Outstanding == sent[Len(sent)]

\* C4: VerifyResetToken answers valid exactly for the raw token of the reset
\* link issued last, while that reset is still stored and the time is at most
\* 15 minutes past its issue; with no reset pending, with the expiry passed, or
\* with any other token string it answers invalid.
C4_VerifyValidOnlyOutstanding ==
    \A t \in Tokens :
        LET a == GetSingleAdmin
        IN  ResetVerifyOut(t).valid <=>
               /\ a # 0
               /\ ~NoResetPending(admin[a])
               /\ Len(sent) > 0
               /\ t = Outstanding.token
               /\ now <= Outstanding.at + RESET_TOKEN_TTL_MINUTES

\* C4 witness: VerifyResetToken has just answered valid at the very minute the
\* outstanding reset expires
C4_Witness ==
    /\ last.op = "verify_reset_token"
    /\ last.detail = "valid"
    /\ Len(sent) > 0
    /\ now = Outstanding.at + RESET_TOKEN_TTL_MINUTES

\* The stored subscriber records with a given email
WithEmail(coll, email) == {i \in 1..Len(coll) : coll[i].email = email}

\* C5: Subscribe is idempotent by email: no email is ever stored twice, every
\* Subscribe call answers success and leaves exactly one record with its
\* email, and a call for an email already stored changes nothing.
C5_SubscribeIdempotent ==
    /\ [](\A e \in SubscriberEmails : Cardinality(WithEmail(subscribers, e)) <= 1)
    /\ [][\A n \in Names, e \in SubscriberEmails :
             AddSubscriber(n, e) =>
                /\ last'.status = 200
                /\ last'.detail = "success"
                /\ Cardinality(WithEmail(subscribers', e)) = 1
                /\ WithEmail(subscribers, e) # {} => subscribers' = subscribers]_vars

\* C5 witness: a Subscribe call has answered and its email is stored once
C5_Witness ==
    /\ last.op = "add_subscriber"
    /\ last.status = 200
    /\ \E e \in SubscriberEmails : Cardinality(WithEmail(subscribers, e)) = 1

\* C6: a Login with an unknown username and a Login with a known username and
\* a wrong password get the same answer, 401 "Invalid credentials", and neither
\* changes an admin record, so every token that authenticated still does.
C6_LoginFailuresIdentical ==
    [][\A u \in Usernames, p \in Passwords :
          LET a == FindOne({i \in 1..Len(admin) : admin[i].username = u})
          IN  (AdminLogin(u, p) /\ (a = 0 \/ admin[a].password_hash # BcryptHash(p))) =>
                 /\ last' = Response("admin_login", 401, "Invalid credentials")
                 /\ admin' = admin
                 /\ \A t \in Tokens : Authenticates(t) => (Authenticates(t))']_vars

\* C6 witness: a Login has just been refused while a token issued by an
\* earlier Login still authenticates
C6_Witness ==
    /\ last.op = "admin_login"
    /\ last.status = 401
    /\ \E t \in Tokens : Authenticates(t)

\* C7: with a reset pending, ResetPassword with a token other than the
\* outstanding one, at most 15 minutes after the issue, answers 400 "Invalid
\* token" and changes no admin record; ResetPassword with the outstanding token
\* more than 15 minutes after the issue answers 400 "Token expired", clears
\* reset_token_hash and reset_token_expires and changes nothing else
\* (password_hash and current_token stay).
C7_ResetWrongTokenAndExpiry ==
    [][\A t \in Tokens, p \in Passwords :
          LET a == GetSingleAdmin
          IN  (ResetPassword(t, p) /\ a # 0 /\ ~NoResetPending(admin[a])) =>
                 /\ (t # Outstanding.token
                        /\ now <= Outstanding.at + RESET_TOKEN_TTL_MINUTES) =>
                        /\ last' = Response("reset_password", 400, "Invalid token")
                        /\ admin' = admin
                 /\ (t = Outstanding.token
                        /\ now > Outstanding.at + RESET_TOKEN_TTL_MINUTES) =>
                        /\ last' = Response("reset_password", 400, "Token expired")
                        /\ admin' = [admin EXCEPT ![a].reset_token_hash = NoHash,
                                                  ![a].reset_token_expires = NoExpiry]
                        /\ admin'[a].password_hash = admin[a].password_hash
                        /\ admin'[a].current_token = admin[a].current_token
                        /\ NoResetPending(admin'[a])]_vars

\* C7 witness: ResetPassword has just failed on expiry, the reset fields are
\* gone and the password is the one the admin registered with
C7_Witness ==
    /\ last.op = "reset_password"
    /\ last.detail = "Token expired"
    /\ Len(sent) > 0
    /\ now > Outstanding.at + RESET_TOKEN_TTL_MINUTES
    /\ NoResetPending(admin[1])
    /\ \E p \in RegisterPasswords : admin[1].password_hash = BcryptHash(p)

\* C8: in every state reached by any interleaving of the handlers' store
\* calls, every admin record has reset_token_hash and reset_token_expires both
\* present or both absent.
C8_ResetFieldsTogether ==
    \A i \in 1..Len(admin) :
        (admin[i].reset_token_hash = NoHash) <=> (admin[i].reset_token_expires = NoExpiry)

\* C8 witness: a reset is stored while a ForgotPassword and a ResetPassword
\* that have both read the admin record are about to write it
C8_Witness ==
    /\ Len(admin) > 0
    /\ ~NoResetPending(admin[1])
    /\ \E f \in Frames : f.op = "forgot_password" /\ f.pc = "update_one"
    /\ \E f \in Frames : f.op = "reset_password"

\* The raw tokens of the links that a later link has superseded
Superseded == {sent[i].token : i \in 1..(Len(sent) - 1)}

\* C9: a successful ForgotPassword stores an expiry 15 minutes after the call
\* and leaves its own raw token as the only one VerifyResetToken accepts; the
\* token of a superseded link never verifies again, and ResetPassword with it
\* fails and changes no password.
C9_ForgotSupersedes ==
    /\ [](\A t \in Superseded : ~ResetVerifyOut(t).valid)
    /\ [][\A e \in Emails :
             (ForgotPassword(e) /\ last'.status = 200) =>
                 /\ admin'[GetSingleAdmin].reset_token_expires = now + RESET_TOKEN_TTL_MINUTES
                 /\ \A t \in Tokens : (ResetVerifyOut(t).valid)' <=> (t = issued')]_vars
    /\ [][\A t \in Tokens, p \in Passwords :
             (ResetPassword(t, p) /\ t \in Superseded) =>
                 /\ last'.status = 400
                 /\ \A i \in 1..Len(admin) : admin'[i].password_hash = admin[i].password_hash]_vars

\* C9 witness: after two reset links, ResetPassword with the token of the first
\* has just been refused as an invalid token while the second was unexpired
C9_Witness ==
    /\ Len(sent) = 2
    /\ last.op = "reset_password"
    /\ last.detail = "Invalid token"
    /\ ~NoResetPending(admin[1])
    /\ ResetVerifyOut(sent[2].token).valid

\* The record a completed reset leaves: the new password's hash, and
\* reset_token_hash, reset_token_expires and current_token absent
AfterReset(doc, new_password) ==
    [full_name |-> doc.full_name, username |-> doc.username, email |-> doc.email,
     password_hash |-> BcryptHash(new_password), is_active |-> doc.is_active,
     current_token |-> NoToken, reset_token_hash |-> NoHash,
     reset_token_expires |-> NoExpiry]

\* C10: with RESET_MODE off the developer fallback answers 404 "Not found" and
\* changes nothing; with RESET_MODE on and an admin stored it answers success
\* and leaves that admin's record as a successful ResetPassword does: the new
\* password's hash stored, reset_token_hash, reset_token_expires and
\* current_token absent, the other fields and records as they were.
C10_DeveloperFallback ==
    /\ [][\A p \in Passwords :
             ResetPasswordApply(p) =>
                 /\ ~RESET_MODE =>
                       /\ last' = Response("reset_password_apply", 404, "Not found")
                       /\ UNCHANGED <<admin, subscribers, RESET_ADMIN, ADMIN_CREATED,
                                      RESET_MODE, now, issued, sent>>
                 /\ (RESET_MODE /\ admin # <<>>) =>
                       /\ last'.status = 200
                       /\ admin' = [admin EXCEPT ![1] = AfterReset(@, p)]]_vars
    /\ [][\A t \in Tokens, p \in Passwords :
             (ResetPassword(t, p) /\ last'.status = 200) =>
                 admin' = [admin EXCEPT ![1] = AfterReset(@, p)]]_vars

\* C10 witness: the developer fallback has just replaced the password of an
\* admin who had logged in and asked for a reset link; session and reset are gone
C10_Witness ==
    /\ RESET_MODE
    /\ last.op = "reset_password_apply"
    /\ last.status = 200
    /\ issued = 2
    /\ Len(sent) = 1
    /\ admin[1].current_token = NoToken
    /\ NoResetPending(admin[1])

\* The bearer tokens that authenticate as the admin record at position i
SessionsOf(i) == {t \in Tokens : Authenticates(t) /\ AuthenticatedAdmin(t) = i}

\* C11: at any time at most one bearer token authenticates as a given admin,
\* and a successful Login of an admin who holds a session token t1 returns a
\* different token t2 such that afterwards t1 is answered 401 "Invalid token"
\* and t2 authenticates as that admin.
C11_SingleActiveSession ==
    /\ [](\A i \in 1..Len(admin) : Cardinality(SessionsOf(i)) <= 1)
    /\ [][\A u \in Usernames, p \in Passwords :
             LET a == FindOne({i \in 1..Len(admin) : admin[i].username = u})
             IN  (AdminLogin(u, p) /\ last'.status = 200) =>
                    /\ last'.token \in Tokens
                    /\ SessionsOf(a)' = {last'.token}
                    /\ \A t1 \in SessionsOf(a) :
                          /\ t1 # last'.token
                          /\ (GetCurrentAdmin(Bearer(t1)).status)' = 401
                          /\ (GetCurrentAdmin(Bearer(t1)).detail)' = "Invalid token"]_vars

\* C11 witness: the only admin has logged in twice in a row (no reset link was
\* ever issued and the developer fallback is off); the second token
\* authenticates, the first no longer does
C11_Witness ==
    /\ ~RESET_MODE
    /\ sent = <<>>
    /\ Len(admin) = 1
    /\ issued = 2
    /\ last.op = "admin_login"
    /\ last.status = 200
    /\ last.token = 2
    /\ Authenticates(2)
    /\ ~Authenticates(1)

\* C12: a Register call that passes the existence check (as every call does
\* under the RESET_ADMIN override) and whose username or email is that of a
\* stored admin record is answered 400 "Username or email already in use" and
\* inserts nothing; no two admin records ever share a username or an email.
C12_RegisterConflict ==
    /\ [](\A i, j \in 1..Len(admin) :
             i # j => /\ admin[i].username # admin[j].username
                      /\ admin[i].email # admin[j].email)
    /\ [][\A r \in RegisterInputs :
             (/\ AdminRegister(r[1], r[2], r[3], r[4])
              /\ RESET_ADMIN \/ (admin = <<>> /\ ~ADMIN_CREATED)
              /\ \E i \in 1..Len(admin) :
                    admin[i].username = r[2] \/ admin[i].email = r[3]) =>
                 /\ last' = Response("admin_register", 400,
                                     "Username or email already in use")
                 /\ admin' = admin]_vars

\* C12 witness: under the override two admins are stored and a further
\* Register call has just been refused for a username or email in use
C12_Witness ==
    /\ RESET_ADMIN
    /\ Len(admin) = 2
    /\ last.op = "admin_register"
    /\ last.status = 400

\* C13: ListSubscribers answers 200 with the list of records exactly when the
\* header is a Bearer credential whose token is the current_token of a stored
\* admin record; with no header, another scheme, or a token no record holds
\* (a token cleared by a reset included) it answers 401 and no records; it
\* never changes the admin or the subscribers collection.
C13_ListSubscribersGuard ==
    [][\A h \in Headers :
          ListSubscribers(h) =>
             LET ok == /\ h # NoHeader
                       /\ h.scheme = "Bearer"
                       /\ \E i \in 1..Len(admin) : admin[i].current_token = h.token
             IN  /\ ok => /\ last'.status = 200
                          /\ "items" \in DOMAIN last'
                 /\ ~ok => /\ last'.status = 401
                           /\ "items" \notin DOMAIN last'
                 /\ UNCHANGED <<admin, subscribers>>]_vars

\* C13 witness: every token issued was a session token, the developer
\* fallback has since cleared the session, and a ListSubscribers call with a
\* Bearer token has just been refused although subscribers are stored
C13_Witness ==
    /\ issued = MaxTokens
    /\ Len(admin) = 1
    /\ admin[1].current_token = NoToken
    /\ admin[1].password_hash = BcryptHash("secret2")
    /\ subscribers # <<>>
    /\ last.op = "list_subscribers"
    /\ last.status = 401
    /\ last.detail = "Invalid token"

\* The two checks of admin_login on a username and password: a record with the
\* username is found and bcrypt verifies the password against its hash
LoginAccepts(username, password) ==
    LET a == FindOne({i \in 1..Len(admin) : admin[i].username = username})
    IN  a # 0 /\ BcryptVerify(password, admin[a].password_hash)

\* C14: a successful ResetPassword(token, new_password) replaces the
\* credential of the admin it resets: right after it a Login with that admin's
\* username and new_password is accepted, a Login with the password accepted
\* before (when it differs from new_password) is refused, and VerifyResetToken
\* answers invalid for every token.  A Login call answers 200 exactly when it
\* is accepted, and 401 otherwise.
C14_ResetReplacesCredential ==
    /\ [][\A k \in Tokens, p \in Passwords :
             (ResetPassword(k, p) /\ last'.status = 200) =>
                 LET u == admin[GetSingleAdmin].username
                 IN  /\ (LoginAccepts(u, p))'
                     /\ \A q \in Passwords :
                           (q # p /\ LoginAccepts(u, q)) => ~(LoginAccepts(u, q))'
                     /\ \A t \in Tokens : ~(ResetVerifyOut(t).valid)']_vars
    /\ [][\A u \in Usernames, p \in Passwords :
             AdminLogin(u, p) =>
                 /\ LoginAccepts(u, p) => last'.status = 200
                 /\ ~LoginAccepts(u, p) => last'.status = 401]_vars

\* C14 witness: with the developer fallback off, a reset link was issued, the
\* password registered with was replaced through it, no reset is pending, and
\* a Login has just succeeded with the new password
C14_Witness ==
    /\ ~RESET_MODE
    /\ Len(admin) = 1
    /\ Len(sent) = 1
    /\ admin[1].password_hash = BcryptHash("secret2")
    /\ NoResetPending(admin[1])
    /\ last.op = "admin_login"
    /\ last.status = 200
    /\ Authenticates(last.token)

\* C15: a reset token is single-use: no raw token is ever presented by more
\* than one reset_password request that is answered with success, whatever
\* the interleaving of the requests' store calls.
C15_ResetTokenSingleUse ==
    \A t \in Tokens : CopiesIn(t, consumed) <= 1

\* C16: with the RESET_ADMIN override off the store never holds more than one
\* admin record, whatever the interleaving of the store calls of concurrent
\* Register requests.
C16_AtMostOneAdmin ==
    ~RESET_ADMIN => Len(admin) <= 1

\* C17: a bearer token that authenticates as an admin was issued by a Login
\* that verified the password now stored for that admin, under any
\* interleaving.  Stated step by step: a token starts to authenticate only in
\* the write of a Login whose verified password is the one stored at that
\* write, and the stored password of an admin does not change while a token
\* keeps authenticating as that admin; so no token obtained with the password
\* of before a reset authenticates once the reset has completed.
C17_SessionFromCurrentPassword ==
    [][\A t \in Tokens :
          /\ (~Authenticates(t) /\ (Authenticates(t))') =>
                \E f \in Frames :
                    /\ LoginUpdateOne(f)
                    /\ BcryptVerify(f.password, admin'[f.a].password_hash)
          /\ (Authenticates(t) /\ (Authenticates(t))') =>
                admin'[AuthenticatedAdmin(t)].password_hash =
                    admin[AuthenticatedAdmin(t)].password_hash]_vars

\* C18: a pending reset is removed only by the listed causes, under any
\* interleaving: a raw token for which VerifyResetToken answers valid stops
\* being answered valid only in a step that is the passing of time beyond its
\* expiry, the write of a successful reset_password or developer-fallback
\* reset, or the write of a later ForgotPassword.  In particular the cleanup
\* write of a reset_password request that failed on expiry never removes an
\* unexpired pending reset.
C18_PendingResetRemovedByListedCauses ==
    [][\A t \in Tokens :
          (ResetVerifyOut(t).valid /\ ~(ResetVerifyOut(t).valid)') =>
              \/ Tick /\ now' > admin[GetSingleAdmin].reset_token_expires
              \/ \E f \in Frames : ResetSet(f)
              \/ \E f \in Frames : ApplyUpdateOne(f)
              \/ \E f \in Frames : ForgotUpdateOne(f)]_vars

\* The admin record with the two reset fields blanked: what forgot_password
\* must leave as it found it.
BesidesResetFields(doc) ==
    [doc EXCEPT !.reset_token_hash = NoHash, !.reset_token_expires = NoExpiry]

\* C19: VerifyResetToken leaves every admin record unchanged whatever it
\* answers, and ForgotPassword changes nothing but reset_token_hash and
\* reset_token_expires: no record is added or removed, and every record keeps
\* its password_hash, its current_token and all its other fields.
C19_VerifyReadOnlyForgotFrame ==
    [][/\ (\E t \in Tokens \cup {NoToken} : VerifyResetToken(t)) => admin' = admin
       /\ (\E e \in Emails : ForgotPassword(e)) =>
             /\ Len(admin') = Len(admin)
             /\ \A i \in 1..Len(admin) :
                   BesidesResetFields(admin'[i]) = BesidesResetFields(admin[i])]_vars

\* An expired pending reset is still stored after a verify-only call answered
\* "Token expired".
C19_Witness ==
    /\ last.op = "verify_reset_token"
    /\ last.detail = "Token expired"
    /\ Len(admin) >= 1
    /\ admin[GetSingleAdmin].reset_token_hash # NoHash
    /\ admin[GetSingleAdmin].reset_token_expires < now

============================================================================
